---- MODULE Spec2Model ----
(***************************************************************************)
(* Model of the batch dispatch engine of src/src/probe_engine.py:          *)
(* ProbeEngine.run_batch_probe, run_single_probe, the tenacity retry       *)
(* decorator around _call_api, and the failed-prompt journal.              *)
(* Time is a clock in whole seconds; strings that are inspected for their  *)
(* content (error texts) are sequences of tokens.                          *)
(***************************************************************************)
EXTENDS Integers, Sequences, FiniteSets, TLC

\* ------------------------------------------------------------------ bounds
MaxPrompts == 2
MaxTotal == 4

\* ------------------------------------------------------- input universes
PromptIds == <<"A1", "B1", "C1", "D1">>
Langs == {"en", "cn"}
ModelNames == <<"Llama-3.3-70B", "Qwen-2.5-72B">>
Responses == {"Test response"}
\* constructor arguments: the default and one other value of each
MaxRetriesArgs == {3, 5}
RateLimitDelays == {1, 10}
CallDurations == {1}
Exceptions ==
    { [type |-> "Exception", msg |-> "API Error"],
      [type |-> "APITimeoutError", msg |-> "Request timed out."] }

\* Optional[str]: None is the empty sequence, a value v is <<v>>.
None == <<>>
Some(v) == <<v>>

\* ---------------------------------------------------------------- helpers
SeqsUpTo(S, n) == UNION { [1..k -> S] : k \in 0..n }

IsInjective(s) == \A i, j \in DOMAIN s : s[i] = s[j] => i = j

\* A prompt dictionary {"id": ..., "en": ..., "cn": ...} with the language
\* keys ls; the text of language l is the pair <<id, l>>.
PromptDict(id, ls) ==
    [k \in {"id"} \cup ls |-> IF k = "id" THEN <<id, "id">> ELSE <<id, k>>]

\* A model dictionary {"name": ..., "id": ...}.
ModelDict(name) == [name |-> name, id |-> <<"vendor", name>>]

\* prompt lists as PromptManager yields them: distinct ids in load order,
\* every prompt with a text in at least one language
PromptLists ==
    UNION { { [i \in 1..k |-> PromptDict(PromptIds[i], f[i])] :
                f \in [1..k -> (SUBSET Langs) \ {{}}] } : k \in 0..MaxPrompts }

\* the first k configured models, in the order of the configuration
ModelLists ==
    { [i \in 1..k |-> ModelDict(ModelNames[i])] : k \in 0..Len(ModelNames) }

\* requested languages, in any order, none twice
LanguageLists == { l \in SeqsUpTo(Langs, Cardinality(Langs)) : IsInjective(l) }

\* ------------------------------------------------------------------ state
VARIABLES
    max_retries,          \* self.max_retries
    rate_limit_delay,     \* self.rate_limit_delay
    total_requests,       \* self.total_requests
    successful_requests,  \* self.successful_requests
    failed_requests,      \* self.failed_requests
    journal,              \* lines of self.failed_prompts_log
    prompts, models, languages,   \* arguments of run_batch_probe
    results,              \* the list `results` of run_batch_probe
    current,              \* the counter `current` of run_batch_probe
    pi, li, mi,           \* positions of the three nested for loops
    pc,                   \* control position
    attempt,              \* tenacity's attempt_number of the running call
    timestamp,            \* the local `timestamp` of run_single_probe
    outcome,              \* what _call_api last returned or raised
    now,                  \* the clock, in seconds
    callLog,              \* history: one entry per remote call made
    sleeps,               \* history: one entry per rate-limit sleep
    args,                 \* the command line of scripts/run_probe.py
    config_ok,            \* whether Config.validate() passes
    exit_code,            \* exit status of the command-line run
    main_exc,             \* the exception main() caught
    out_file,             \* the result file save_results wrote
    dirs,                 \* directories that exist
    loaded,               \* what pd.read_csv made of the result file
    embedding_cache,      \* EmbeddingAnalyzer._embedding_cache
    embed_call            \* history: the last compute_embeddings call

vars == << max_retries, rate_limit_delay, total_requests, successful_requests,
           failed_requests, journal, prompts, models, languages, results,
           current, pi, li, mi, pc, attempt, timestamp, outcome, now, callLog,
           sleeps, args, config_ok, exit_code, main_exc, out_file, dirs,
           loaded, embedding_cache, embed_call >>

engineVars == << max_retries, rate_limit_delay >>
counterVars == << total_requests, successful_requests, failed_requests >>
argVars == << prompts, models, languages >>
loopVars == << pi, li, mi >>
batchVars == << counterVars, journal, argVars, results, current, loopVars, attempt,
                timestamp, outcome, now, callLog, sleeps >>
embVars == << embedding_cache, embed_call >>
cliVars == << args, config_ok, exit_code, main_exc, out_file, dirs, loaded, embVars >>

\* no command line: the engine is used as a library
NoArgs == [kind |-> "none"]

NoOutcome == [kind |-> "none"]

\* ProbeEngine.__init__
Init ==
    /\ max_retries \in MaxRetriesArgs
    /\ rate_limit_delay \in RateLimitDelays
    /\ total_requests = 0
    /\ successful_requests = 0
    /\ failed_requests = 0
    /\ journal = <<>>
    /\ prompts = <<>>
    /\ models = <<>>
    /\ languages = <<>>
    /\ results = <<>>
    /\ current = 0
    /\ pi = 1 /\ li = 1 /\ mi = 1
    /\ pc = "idle"
    /\ attempt = 0
    /\ timestamp = 0
    /\ outcome = NoOutcome
    /\ now = 0
    /\ callLog = <<>>
    /\ sleeps = <<>>
    /\ args = NoArgs
    /\ config_ok = TRUE
    /\ exit_code = None
    /\ main_exc = None
    /\ out_file = None
    /\ dirs = {}
    /\ loaded = None
    /\ embedding_cache = <<>>
    /\ embed_call = None

\* ------------------------------------------------------- tenacity's retry
\* @retry(stop=stop_after_attempt(3), ...)
StopAttempts == 3
\* wait_exponential(multiplier=1, min=4, max=60)
WaitMultiplier == 1
WaitMin == 4
WaitMax == 60

Max2(a, b) == IF a >= b THEN a ELSE b
Min2(a, b) == IF a <= b THEN a ELSE b

\* variant: the stop condition reads the max_retries of the constructor
StopAfterMaxRetries(n) == n >= max_retries

\* stop_after_attempt(3): stop once attempt_number >= 3.  The engine's
\* max_retries field takes no part in it.
StopAfterAttempt(n) == n >= StopAttempts

\* variant: the minimum taken as the base of the doubling
WaitExponentialBase4(n) == Min2(WaitMin * 2^(n - 1), WaitMax)

\* wait_exponential.__call__: max(max(0, min), min(multiplier * 2**(n-1), max))
\* where n is the number of the attempt that has just failed.
WaitExponential(n) ==
    Max2(Max2(0, WaitMin), Min2(WaitMultiplier * 2^(n - 1), WaitMax))

\* variant: retry only on timeouts
RetryIfTimeoutOnly(e) == e.type = "APITimeoutError"

\* retry_if_exception_type(Exception): every exception the client raises is
\* an instance of Exception, so every failure is retried.
RetryIfExceptionType(e) == TRUE

\* str(e) of the exception a remote call raises: its message.
StrException(e) == << e.msg >>

\* str(RetryError): "RetryError[<Future at 0x... state=finished raised T>]",
\* naming the type T of the last attempt's exception, not its message.
StrRetryError(e) ==
    << "RetryError[", "<Future at ", "0x", " state=finished raised ", e.type, ">", "]" >>

\* what `except Exception as e: error_msg = str(e)` sees in run_single_probe
ErrorMsg(o) ==
    IF o.kind = "retry_error" THEN StrRetryError(o.exc) ELSE StrException(o.exc)

\* ------------------------------------------------------------ ProbeResult
ProbeResultOk(prompt_id, model, language, prompt, response, ts) ==
    [ prompt_id |-> prompt_id, model |-> model, language |-> language,
      prompt |-> prompt, response |-> response, timestamp |-> ts,
      success |-> TRUE, error |-> None ]

\* variant: the failed result carries the error text as its response
ProbeResultErrAsResponse(prompt_id, model, language, prompt, ts, error_msg) ==
    [ prompt_id |-> prompt_id, model |-> model, language |-> language,
      prompt |-> prompt, response |-> error_msg, timestamp |-> ts,
      success |-> FALSE, error |-> Some(error_msg) ]

ProbeResultErr(prompt_id, model, language, prompt, ts, error_msg) ==
    [ prompt_id |-> prompt_id, model |-> model, language |-> language,
      prompt |-> prompt, response |-> "", timestamp |-> ts,
      success |-> FALSE, error |-> Some(error_msg) ]

\* variant: a result recorded after a failed one takes its place
AppendResultOverFailed(rs, result) ==
    IF rs # <<>> /\ ~rs[Len(rs)].success
    THEN [rs EXCEPT ![Len(rs)] =
             [ prompt_id |-> result.prompt_id, model |-> result.model,
               language |-> result.language, prompt |-> result.prompt,
               response |-> result.response, timestamp |-> result.timestamp,
               success |-> result.success, error |-> result.error ]]
    ELSE Append(rs, [ prompt_id |-> result.prompt_id, model |-> result.model,
                      language |-> result.language, prompt |-> result.prompt,
                      response |-> result.response, timestamp |-> result.timestamp,
                      success |-> result.success, error |-> result.error ])

\* variant: failed probes are left out of the results
AppendResultDropFailed(rs, result) ==
    IF result.success THEN Append(rs, result) ELSE rs

\* variant: rows are inserted at the front
AppendResultFront(rs, result) == << result >> \o rs

\* results.append({...}) of run_batch_probe
AppendResult(rs, result) ==
    Append(rs, [ prompt_id |-> result.prompt_id, model |-> result.model,
                 language |-> result.language, prompt |-> result.prompt,
                 response |-> result.response, timestamp |-> result.timestamp,
                 success |-> result.success, error |-> result.error ])

\* variant: the file is opened with mode 'w'
LogFailedPromptTruncate(j, prompt_id, model, prompt, error, ts, task) ==
    << [ timestamp |-> ts, prompt_id |-> prompt_id, model |-> model,
         prompt |-> prompt, error |-> error, task |-> task ] >>

\* variant: nothing is written
LogFailedPromptNoWrite(j, prompt_id, model, prompt, error, ts, task) == j

\* _log_failed_prompt: one more line in the journal.  `task` is not in the
\* file: it remembers which task (the value of `current`) wrote the line.
LogFailedPrompt(j, prompt_id, model, prompt, error, ts, task) ==
    Append(j, [ timestamp |-> ts, prompt_id |-> prompt_id, model |-> model,
                prompt |-> prompt, error |-> error, task |-> task ])

\* --------------------------------------------------------- run_batch_probe
\* total = len(prompts) * len(models) * len(languages)
Total(p, m, l) == Len(p) * Len(m) * Len(l)

\* variant: run_batch_probe starts by zeroing the counters
RunBatchProbeResetsCounters(p, m, l) ==
    /\ pc = "idle"
    /\ prompts' = p /\ models' = m /\ languages' = l
    /\ results' = <<>>
    /\ current' = 0
    /\ pi' = 1 /\ li' = 1 /\ mi' = 1
    /\ total_requests' = 0
    /\ successful_requests' = 0
    /\ failed_requests' = 0
    /\ pc' = "loop"
    /\ UNCHANGED << cliVars, sleeps, engineVars, journal, attempt, timestamp,
                    outcome, now, callLog >>

RunBatchProbe(p, m, l) ==
    /\ pc = "idle"
    /\ prompts' = p /\ models' = m /\ languages' = l
    /\ results' = <<>>
    /\ current' = 0
    /\ pi' = 1 /\ li' = 1 /\ mi' = 1
    /\ pc' = "loop"
    /\ UNCHANGED << cliVars, sleeps, engineVars, counterVars, journal, attempt, timestamp,
                    outcome, now, callLog >>

\* variant: the batch also returns once total_requests has reached total
ForPromptsDoneByCounter ==
    /\ pc = "loop"
    /\ pi > Len(prompts) \/ total_requests >= Total(prompts, models, languages)
    /\ pc' = "done"
    /\ UNCHANGED << cliVars, sleeps, engineVars, counterVars, journal, argVars, results, current,
                    loopVars, attempt, timestamp, outcome, now, callLog >>

\* for prompt_dict in prompts: exhausted -> DataFrame, statistics, return
ForPromptsDone ==
    /\ pc = "loop"
    /\ pi > Len(prompts)
    /\ pc' = "done"
    /\ UNCHANGED << cliVars, sleeps, engineVars, counterVars, journal, argVars, results, current,
                    loopVars, attempt, timestamp, outcome, now, callLog >>

\* for lang in languages: exhausted -> next prompt
ForLanguagesDone ==
    /\ pc = "loop"
    /\ pi <= Len(prompts)
    /\ li > Len(languages)
    /\ pi' = pi + 1 /\ li' = 1 /\ mi' = 1
    /\ UNCHANGED << cliVars, sleeps, engineVars, counterVars, journal, argVars, results, current,
                    pc, attempt, timestamp, outcome, now, callLog >>

\* variant: break instead of continue
SkipLanguageBreak ==
    /\ pc = "loop"
    /\ pi <= Len(prompts)
    /\ li <= Len(languages)
    /\ languages[li] \notin DOMAIN prompts[pi]
    /\ li' = Len(languages) + 1 /\ mi' = 1
    /\ UNCHANGED << cliVars, sleeps, engineVars, counterVars, journal, argVars, results, current,
                    pi, pc, attempt, timestamp, outcome, now, callLog >>

\* if lang not in prompt_dict: warning, continue
SkipLanguage ==
    /\ pc = "loop"
    /\ pi <= Len(prompts)
    /\ li <= Len(languages)
    /\ languages[li] \notin DOMAIN prompts[pi]
    /\ li' = li + 1 /\ mi' = 1
    /\ UNCHANGED << cliVars, sleeps, engineVars, counterVars, journal, argVars, results, current,
                    pi, pc, attempt, timestamp, outcome, now, callLog >>

\* for model in models: exhausted -> next language
ForModelsDone ==
    /\ pc = "loop"
    /\ pi <= Len(prompts)
    /\ li <= Len(languages)
    /\ languages[li] \in DOMAIN prompts[pi]
    /\ mi > Len(models)
    /\ li' = li + 1 /\ mi' = 1
    /\ UNCHANGED << cliVars, sleeps, engineVars, counterVars, journal, argVars, results, current,
                    pi, pc, attempt, timestamp, outcome, now, callLog >>

\* body of the model loop up to the first remote call: current += 1, then
\* run_single_probe: total_requests += 1, timestamp = datetime.now()
RunSingleProbe ==
    /\ pc = "loop"
    /\ pi <= Len(prompts)
    /\ li <= Len(languages)
    /\ languages[li] \in DOMAIN prompts[pi]
    /\ mi <= Len(models)
    /\ current' = current + 1
    /\ total_requests' = total_requests + 1
    /\ timestamp' = now
    /\ attempt' = 1
    /\ outcome' = NoOutcome
    /\ pc' = "call"
    /\ UNCHANGED << cliVars, sleeps, engineVars, successful_requests, failed_requests, journal,
                    argVars, results, loopVars, now, callLog >>

\* the task the loops are at
TaskPromptId == prompts[pi]["id"][1]
TaskLanguage == languages[li]
TaskPrompt == prompts[pi][languages[li]]
TaskModelName == models[mi].name
TaskModelId == models[mi].id

LogCall(log, ok, d, reply) ==
    Append(log, [ task |-> current, attempt |-> attempt, start |-> now,
                  end |-> now + d, ok |-> ok, reply |-> reply,
                  model_id |-> TaskModelId, prompt |-> TaskPrompt,
                  rows |-> Len(results), records |-> Len(journal),
                  waits |-> Len(sleeps) ])

\* _call_api: the remote call returns the response r after d seconds
CallApiReturns(r, d) ==
    /\ pc = "call"
    /\ callLog' = LogCall(callLog, TRUE, d, r)
    /\ now' = now + d
    /\ outcome' = [kind |-> "return", value |-> r]
    /\ pc' = "returned"
    /\ UNCHANGED << cliVars, sleeps, engineVars, counterVars, journal, argVars, results, current,
                    loopVars, attempt, timestamp >>

\* _call_api: the remote call raises e after d seconds; tenacity logs a
\* warning, sleeps wait(attempt_number) and calls again
CallApiRaisesRetry(e, d) ==
    /\ pc = "call"
    /\ RetryIfExceptionType(e)
    /\ ~StopAfterAttempt(attempt)
    /\ callLog' = LogCall(callLog, FALSE, d, "")
    /\ now' = now + d + WaitExponential(attempt)
    /\ attempt' = attempt + 1
    /\ outcome' = [kind |-> "raise", exc |-> e]
    /\ UNCHANGED << cliVars, sleeps, engineVars, counterVars, journal, argVars, results, current,
                    loopVars, pc, timestamp >>

\* _call_api: the remote call raises e after d seconds and tenacity does not
\* call again: RetryError(last_attempt) once the stop condition holds, the
\* exception itself when the retry condition rejects it
CallApiRaisesStop(e, d) ==
    /\ pc = "call"
    /\ ~RetryIfExceptionType(e) \/ StopAfterAttempt(attempt)
    /\ callLog' = LogCall(callLog, FALSE, d, "")
    /\ now' = now + d
    /\ outcome' = IF RetryIfExceptionType(e)
                    THEN [kind |-> "retry_error", exc |-> e]
                    ELSE [kind |-> "raise", exc |-> e]
    /\ pc' = "raised"
    /\ UNCHANGED << cliVars, sleeps, engineVars, counterVars, journal, argVars, results, current,
                    loopVars, attempt, timestamp >>

\* run_single_probe, success branch, and results.append of the batch loop
ProbeSucceeded ==
    /\ pc = "returned"
    /\ successful_requests' = successful_requests + 1
    /\ results' = AppendResult(results,
            ProbeResultOk(TaskPromptId, TaskModelName, TaskLanguage, TaskPrompt,
                          outcome.value, timestamp))
    /\ pc' = "sleep"
    /\ UNCHANGED << cliVars, sleeps, engineVars, total_requests, failed_requests, journal, argVars,
                    current, loopVars, attempt, timestamp, outcome, now, callLog >>

\* variant: the except branch counts the failure and raises again
ProbeFailedReraise ==
    /\ pc = "raised"
    /\ failed_requests' = failed_requests + 1
    /\ pc' = "aborted"
    /\ UNCHANGED << cliVars, sleeps, engineVars, total_requests, successful_requests, journal,
                    argVars, results, current, loopVars, attempt, timestamp,
                    outcome, now, callLog >>

\* variant: the except branch records the outcome and leaves the journal
\* for later
ProbeFailedJournalLater ==
    /\ pc = "raised"
    /\ failed_requests' = failed_requests + 1
    /\ results' = AppendResult(results,
            ProbeResultErr(TaskPromptId, TaskModelName, TaskLanguage, TaskPrompt,
                           timestamp, ErrorMsg(outcome)))
    /\ pc' = "sleep"
    /\ UNCHANGED << cliVars, sleeps, engineVars, total_requests, successful_requests, journal,
                    argVars, current, loopVars, attempt, timestamp, outcome, now,
                    callLog >>

\* variant: the except branch counts one failure per attempt made
ProbeFailedCountsAttempts ==
    /\ pc = "raised"
    /\ failed_requests' = failed_requests + attempt
    /\ journal' = LogFailedPrompt(journal, TaskPromptId, TaskModelName, TaskPrompt,
                                  ErrorMsg(outcome), now, current)
    /\ results' = AppendResult(results,
            ProbeResultErr(TaskPromptId, TaskModelName, TaskLanguage, TaskPrompt,
                           timestamp, ErrorMsg(outcome)))
    /\ pc' = "sleep"
    /\ UNCHANGED << cliVars, sleeps, engineVars, total_requests, successful_requests, argVars,
                    current, loopVars, attempt, timestamp, outcome, now, callLog >>

\* run_single_probe, except branch (with _log_failed_prompt), and
\* results.append of the batch loop
ProbeFailed ==
    /\ pc = "raised"
    /\ failed_requests' = failed_requests + 1
    /\ journal' = LogFailedPrompt(journal, TaskPromptId, TaskModelName, TaskPrompt,
                                  ErrorMsg(outcome), now, current)
    /\ results' = AppendResult(results,
            ProbeResultErr(TaskPromptId, TaskModelName, TaskLanguage, TaskPrompt,
                           timestamp, ErrorMsg(outcome)))
    /\ pc' = "sleep"
    /\ UNCHANGED << cliVars, sleeps, engineVars, total_requests, successful_requests, argVars,
                    current, loopVars, attempt, timestamp, outcome, now, callLog >>

\* variant: the model loop moves on without sleeping
RateLimitSleepNone ==
    /\ pc = "sleep"
    /\ mi' = mi + 1
    /\ pc' = "loop"
    /\ UNCHANGED << cliVars, sleeps, engineVars, counterVars, journal, argVars, results,
                    current, pi, li, attempt, timestamp, outcome, now, callLog >>

\* variant: the sleep is taken between the models of one prompt text only
RateLimitSleepBetweenModels ==
    /\ pc = "sleep"
    /\ now' = IF mi < Len(models) THEN now + rate_limit_delay ELSE now
    /\ sleeps' = IF mi < Len(models)
                 THEN Append(sleeps, [ task |-> current, start |-> now,
                                       end |-> now + rate_limit_delay,
                                       rows |-> Len(results) ])
                 ELSE sleeps
    /\ mi' = mi + 1
    /\ pc' = "loop"
    /\ UNCHANGED << cliVars, engineVars, counterVars, journal, argVars, results,
                    current, pi, li, attempt, timestamp, outcome, callLog >>

\* time.sleep(self.rate_limit_delay), then the model loop moves on
RateLimitSleep ==
    /\ pc = "sleep"
    /\ now' = now + rate_limit_delay
    /\ sleeps' = Append(sleeps, [ task |-> current, start |-> now,
                                  end |-> now + rate_limit_delay,
                                  rows |-> Len(results) ])
    /\ mi' = mi + 1
    /\ pc' = "loop"
    /\ UNCHANGED << cliVars, engineVars, counterVars, journal, argVars, results, current,
                    pi, li, attempt, timestamp, outcome, callLog >>

\* the steps of a running batch
BatchStep ==
    \/ ForPromptsDone
    \/ ForLanguagesDone
    \/ SkipLanguage
    \/ ForModelsDone
    \/ RunSingleProbe
    \/ \E r \in Responses, d \in CallDurations : CallApiReturns(r, d)
    \/ \E e \in Exceptions, d \in CallDurations : CallApiRaisesRetry(e, d)
    \/ \E e \in Exceptions, d \in CallDurations : CallApiRaisesStop(e, d)
    \/ ProbeSucceeded
    \/ ProbeFailed
    \/ RateLimitSleep

\* a caller starts a batch of at most MaxTotal requests
CallRunBatchProbe ==
    /\ pc = "idle"
    /\ \E p \in PromptLists, m \in ModelLists, l \in LanguageLists :
          /\ Total(p, m, l) <= MaxTotal
          /\ RunBatchProbe(p, m, l)

Next ==
    \/ CallRunBatchProbe
    \/ BatchStep

Spec == Init /\ [][Next]_vars

\* run_single_probe, except branch, when open() of the journal file raises
\* in _log_failed_prompt: nothing catches it, so it leaves run_single_probe
\* and run_batch_probe before any ProbeResult is built
LogFailedPromptRaises ==
    /\ pc = "raised"
    /\ failed_requests' = failed_requests + 1
    /\ pc' = "aborted"
    /\ UNCHANGED << cliVars, sleeps, engineVars, total_requests, successful_requests, journal,
                    argVars, results, current, loopVars, attempt, timestamp,
                    outcome, now, callLog >>

\* the engine with a failure journal that may not be writable
NextJournalFault ==
    \/ Next
    \/ LogFailedPromptRaises

SpecJournalFault == Init /\ [][NextJournalFault]_vars

\* -------------------------------------- an engine that was used before
\* values of (total_requests, successful_requests, failed_requests) at the
\* start of a batch: a new engine, and one that has produced 5 outcomes
CounterStarts == { << 0, 0, 0 >>, << 5, 3, 2 >> }

InitCounters ==
    /\ max_retries = 3
    /\ rate_limit_delay = 1
    /\ \E c \in CounterStarts :
           /\ total_requests = c[1]
           /\ successful_requests = c[2]
           /\ failed_requests = c[3]
    /\ journal = <<>>
    /\ prompts = <<>>
    /\ models = <<>>
    /\ languages = <<>>
    /\ results = <<>>
    /\ current = 0
    /\ pi = 1
    /\ li = 1
    /\ mi = 1
    /\ pc = "idle"
    /\ attempt = 0
    /\ timestamp = 0
    /\ outcome = NoOutcome
    /\ now = 0
    /\ callLog = <<>>
    /\ sleeps = <<>>
    /\ args = NoArgs
    /\ config_ok = TRUE
    /\ exit_code = None
    /\ main_exc = None
    /\ out_file = None
    /\ dirs = {}
    /\ loaded = None
    /\ embedding_cache = <<>>
    /\ embed_call = None

SpecCounters == InitCounters /\ [][Next]_vars

\* ------------------------- one engine, several batches and single probes
\* the remote calls so far that ended their task: a return, or the failure
\* of the last allowed attempt
TerminalCalls ==
    { i \in DOMAIN callLog : callLog[i].ok \/ callLog[i].attempt = StopAttempts }

\* the arguments of a run_single_probe call made by the caller itself
SingleProbeArgs ==
    { [ prompt_id |-> "A1", model_id |-> ModelDict(ModelNames[1]).id,
        model_name |-> ModelNames[1], language |-> lang, prompt |-> << "A1", lang >> ] :
        lang \in Langs }

\* outcomes one engine produces, over all its batches and single probes
ReuseMaxOutcomes == 2

\* the batches the caller runs on the engine: one prompt or none, for none,
\* one or two models
ReusePromptLists == { p \in PromptLists : Len(p) <= 1 }
ReuseLanguageLists == { << "en" >>, << "cn", "en" >> }

\* a new engine with the default arguments
InitReuse ==
    /\ Init
    /\ max_retries = 3
    /\ rate_limit_delay = 1

\* run_batch_probe returns its DataFrame to the caller
BatchReturns ==
    /\ pc = "done"
    /\ pc' = "idle"
    /\ UNCHANGED << cliVars, sleeps, engineVars, counterVars, journal, argVars, results,
                    current, loopVars, attempt, timestamp, outcome, now, callLog >>

\* the caller calls run_batch_probe (again)
ReuseRunBatchProbe ==
    /\ pc = "idle"
    /\ \E p \in ReusePromptLists, m \in ModelLists, l \in ReuseLanguageLists :
          /\ Cardinality(TerminalCalls) + Total(p, m, l) <= ReuseMaxOutcomes
          /\ RunBatchProbe(p, m, l)

\* the caller calls run_single_probe itself: total_requests += 1, timestamp
SingleProbe(a) ==
    /\ pc = "idle"
    /\ Cardinality(TerminalCalls) < ReuseMaxOutcomes
    /\ total_requests' = total_requests + 1
    /\ timestamp' = now
    /\ attempt' = 1
    /\ outcome' = [kind |-> "single", probe |-> a]
    /\ pc' = "single_call"
    /\ UNCHANGED << cliVars, sleeps, engineVars, successful_requests, failed_requests, journal,
                    argVars, results, current, loopVars, now, callLog >>

\* the entry of the call history for a remote call of a single probe
LogSingleCall(log, a, ok, d, reply) ==
    Append(log, [ task |-> 0, attempt |-> attempt, start |-> now,
                  end |-> now + d, ok |-> ok, reply |-> reply,
                  model_id |-> a.model_id, prompt |-> a.prompt,
                  rows |-> Len(results), records |-> Len(journal),
                  waits |-> Len(sleeps) ])

\* _call_api returns to run_single_probe: successful_requests += 1 and the
\* ProbeResult goes to the caller
SingleProbeReturns(r, d) ==
    /\ pc = "single_call"
    /\ callLog' = LogSingleCall(callLog, outcome.probe, TRUE, d, r)
    /\ now' = now + d
    /\ successful_requests' = successful_requests + 1
    /\ outcome' = NoOutcome
    /\ pc' = "idle"
    /\ UNCHANGED << cliVars, sleeps, engineVars, total_requests, failed_requests, journal,
                    argVars, results, current, loopVars, attempt, timestamp >>

\* the remote call raises and tenacity calls again after its wait
SingleProbeRetries(e, d) ==
    /\ pc = "single_call"
    /\ RetryIfExceptionType(e)
    /\ ~StopAfterAttempt(attempt)
    /\ callLog' = LogSingleCall(callLog, outcome.probe, FALSE, d, "")
    /\ now' = now + d + WaitExponential(attempt)
    /\ attempt' = attempt + 1
    /\ UNCHANGED << cliVars, sleeps, engineVars, counterVars, journal, argVars, results,
                    current, loopVars, pc, timestamp, outcome >>

\* the remote call raises and tenacity gives up: failed_requests += 1, the
\* journal record, and the failed ProbeResult goes to the caller
SingleProbeFails(e, d) ==
    /\ pc = "single_call"
    /\ ~RetryIfExceptionType(e) \/ StopAfterAttempt(attempt)
    /\ callLog' = LogSingleCall(callLog, outcome.probe, FALSE, d, "")
    /\ now' = now + d
    /\ failed_requests' = failed_requests + 1
    /\ journal' = LogFailedPrompt(journal, outcome.probe.prompt_id,
                                  outcome.probe.model_name, outcome.probe.prompt,
                                  ErrorMsg(IF RetryIfExceptionType(e)
                                           THEN [kind |-> "retry_error", exc |-> e]
                                           ELSE [kind |-> "raise", exc |-> e]),
                                  now + d, 0)
    /\ outcome' = NoOutcome
    /\ pc' = "idle"
    /\ UNCHANGED << cliVars, sleeps, engineVars, total_requests, successful_requests, argVars,
                    results, current, loopVars, attempt, timestamp >>

NextReuse ==
    \/ ReuseRunBatchProbe
    \/ BatchStep
    \/ BatchReturns
    \/ \E a \in SingleProbeArgs : SingleProbe(a)
    \/ \E r \in Responses, d \in CallDurations : SingleProbeReturns(r, d)
    \/ \E e \in Exceptions, d \in CallDurations : SingleProbeRetries(e, d)
    \/ \E e \in Exceptions, d \in CallDurations : SingleProbeFails(e, d)

SpecReuse == InitReuse /\ [][NextReuse]_vars

\* ------------------------- embedding_analyzer.py: compute_embeddings
EmbMaxTexts == 3

\* texts to embed
Texts == {"a", "b", "c"}

\* self.model.encode of one text: its embedding vector
Embed(text) == << "embedding", text >>

\* self.model.encode(texts, convert_to_numpy=True): one row per text
Encode(texts) == [i \in DOMAIN texts |-> Embed(texts[i])]

\* a row of np.zeros((len(texts), dim))
ZeroRow == << "zeros" >>

\* the positions i of texts with texts[i] not in the cache, ascending
RECURSIVE UncachedIndices(_, _, _)
UncachedIndices(texts, cache, i) ==
    IF i > Len(texts) THEN <<>>
    ELSE (IF texts[i] \in DOMAIN cache THEN <<>> ELSE << i >>)
         \o UncachedIndices(texts, cache, i + 1)

\* for text, embedding in zip(...): self._embedding_cache[text] = embedding
RECURSIVE UpdateCache(_, _, _)
UpdateCache(cache, keys, embeddings) ==
    IF keys = <<>> \/ embeddings = <<>> THEN cache
    ELSE UpdateCache(
             [t \in DOMAIN cache \cup {keys[1]} |->
                 IF t = keys[1] THEN embeddings[1] ELSE cache[t]],
             Tail(keys), Tail(embeddings))

\* all_embeddings[i] = embedding for the pairs of zip(indices, embeddings)
RECURSIVE FillRows(_, _, _)
FillRows(rows, indices, embeddings) ==
    IF indices = <<>> \/ embeddings = <<>> THEN rows
    ELSE FillRows([rows EXCEPT ![indices[1]] = embeddings[1]],
                  Tail(indices), Tail(embeddings))

\* variant: the new embeddings go to the first rows
CombineEmbeddingsInOrder(texts, cache, uncached_indices, new_embeddings) ==
    LET cached_indices == SelectSeq([i \in 1..Len(texts) |-> i],
                                    LAMBDA i : texts[i] \in DOMAIN cache)
        cached_embeddings == [k \in DOMAIN cached_indices |-> cache[texts[cached_indices[k]]]]
        all_embeddings == [i \in 1..Len(texts) |-> ZeroRow]
    IN  FillRows(FillRows(all_embeddings, cached_indices, cached_embeddings),
                 [k \in DOMAIN uncached_indices |-> k], new_embeddings)

\* the rows compute_embeddings returns with use_cache: zeros, then the cached
\* rows at their positions, then the new rows at the uncached positions
CombineEmbeddings(texts, cache, uncached_indices, new_embeddings) ==
    LET cached_indices == SelectSeq([i \in 1..Len(texts) |-> i],
                                    LAMBDA i : texts[i] \in DOMAIN cache)
        cached_embeddings == [k \in DOMAIN cached_indices |-> cache[texts[cached_indices[k]]]]
        all_embeddings == [i \in 1..Len(texts) |-> ZeroRow]
    IN  FillRows(FillRows(all_embeddings, cached_indices, cached_embeddings),
                 uncached_indices, new_embeddings)

\* a new EmbeddingAnalyzer
InitAnalyzer ==
    /\ Init
    /\ max_retries = 3
    /\ rate_limit_delay = 1

\* compute_embeddings(texts, use_cache=True)
ComputeEmbeddingsCached(texts) ==
    LET uncached_indices == UncachedIndices(texts, embedding_cache, 1)
        uncached_texts == [k \in DOMAIN uncached_indices |-> texts[uncached_indices[k]]]
        new_embeddings == Encode(uncached_texts)
    IN  /\ embedding_cache' = UpdateCache(embedding_cache, uncached_texts, new_embeddings)
        /\ embed_call' = Some([ texts |-> texts, use_cache |-> TRUE,
                                cached |-> Len(texts) - Len(uncached_indices),
                                result |-> CombineEmbeddings(texts, embedding_cache,
                                                             uncached_indices,
                                                             new_embeddings) ])
        /\ UNCHANGED << args, config_ok, exit_code, main_exc, out_file, dirs, loaded,
                        engineVars, batchVars, pc >>

\* compute_embeddings(texts, use_cache=False)
ComputeEmbeddingsUncached(texts) ==
    /\ embed_call' = Some([ texts |-> texts, use_cache |-> FALSE, cached |-> 0,
                            result |-> Encode(texts) ])
    /\ UNCHANGED << embedding_cache, args, config_ok, exit_code, main_exc, out_file, dirs,
                    loaded, engineVars, batchVars, pc >>

NextAnalyzer ==
    \/ \E texts \in SeqsUpTo(Texts, EmbMaxTexts) : ComputeEmbeddingsCached(texts)
    \/ \E texts \in SeqsUpTo(Texts, EmbMaxTexts) : ComputeEmbeddingsUncached(texts)

SpecAnalyzer == InitAnalyzer /\ [][NextAnalyzer]_vars

\* ------------------------------------------- scripts/run_probe.py: main()
\* Config.MODELS
ConfigModels ==
    [name \in {"Llama-3.3-70B", "Qwen-2.5-72B", "GPT-4o", "Claude-3.5-Sonnet"}
        |-> ModelDict(name).id]

\* --models: one or two names, none twice, known to Config.MODELS or not
RequestedModels ==
    { m \in SeqsUpTo({"Llama-3.3-70B", "Qwen-2.5-72B", "Mistral-7B"}, 2) :
        m # <<>> /\ IsInjective(m) }

\* the prompts PromptManager.get_all_prompts(as_list=True) loads
AllPrompts == << PromptDict("A1", {"en", "cn"}), PromptDict("B1", {"en"}) >>

\* --prompts: absent, or a list of ids
PromptFilters == {None, Some(<<"A1">>), Some(<<"B1">>), Some(<<"Z9">>)}

\* --languages: at least one of the choices
RequestedLanguages == LanguageLists \ {<<>>}

\* suffixes of --output
SupportedSuffixes == {".csv", ".json", ".xlsx"}
Suffixes == SupportedSuffixes \cup {".txt"}
OutputPaths == { [parent |-> "out", suffix |-> x] : x \in Suffixes }

\* --rate-limit
RateLimitArgs == {1}

\* main: the prompts selected by --prompts
SelectPrompts(filter) ==
    IF filter = None
    THEN AllPrompts
    ELSE LET InFilter(p) == \E k \in DOMAIN filter[1] : p["id"][1] = filter[1][k]
         IN  SelectSeq(AllPrompts, InFilter)

\* variant: one unknown name makes the whole list invalid
ConfigureModelsStrict(names) ==
    IF \E k \in DOMAIN names : names[k] \notin DOMAIN ConfigModels
    THEN <<>>
    ELSE [k \in DOMAIN names |-> [name |-> names[k], id |-> ConfigModels[names[k]]]]

\* main: the loop over args.models, unknown names are skipped
RECURSIVE ConfigureModels(_)
ConfigureModels(names) ==
    IF names = <<>>
    THEN <<>>
    ELSE (IF names[1] \in DOMAIN ConfigModels
          THEN << [name |-> names[1], id |-> ConfigModels[names[1]]] >>
          ELSE <<>>)
         \o ConfigureModels(Tail(names))

\* command lines whose batch stays within MaxTotal
ArgSets ==
    { a \in [ models : RequestedModels, prompts : PromptFilters,
              languages : RequestedLanguages, output : OutputPaths,
              rate_limit : RateLimitArgs ] :
        Total(SelectPrompts(a.prompts), ConfigureModels(a.models), a.languages)
            <= MaxTotal }

\* the process at the start of main(), no engine constructed yet
InitCli ==
    /\ args \in ArgSets
    /\ config_ok \in BOOLEAN
    /\ exit_code = None
    /\ main_exc = None
    /\ out_file = None
    /\ dirs = {}
    /\ loaded = None
    /\ embedding_cache = <<>>
    /\ embed_call = None
    /\ max_retries = 3
    /\ rate_limit_delay = 1
    /\ total_requests = 0
    /\ successful_requests = 0
    /\ failed_requests = 0
    /\ journal = <<>>
    /\ prompts = <<>>
    /\ models = <<>>
    /\ languages = <<>>
    /\ results = <<>>
    /\ current = 0
    /\ pi = 1
    /\ li = 1
    /\ mi = 1
    /\ pc = "main"
    /\ attempt = 0
    /\ timestamp = 0
    /\ outcome = NoOutcome
    /\ now = 0
    /\ callLog = <<>>
    /\ sleeps = <<>>

\* an exception with its text
Exc(type, text) == [type |-> type, text |-> text]

\* Config.validate() raises, main's except clause exits with 1
MainConfigInvalid ==
    /\ pc = "main"
    /\ ~config_ok
    /\ main_exc' = Some(Exc("ValueError", <<"Configuration errors:">>))
    /\ exit_code' = Some(1)
    /\ pc' = "exited"
    /\ UNCHANGED << embVars, loaded, args, config_ok, out_file, dirs, engineVars, batchVars >>

\* no requested name is in Config.MODELS: sys.exit(1)
MainNoValidModels ==
    /\ pc = "main"
    /\ config_ok
    /\ ConfigureModels(args.models) = <<>>
    /\ exit_code' = Some(1)
    /\ pc' = "exited"
    /\ UNCHANGED << embVars, loaded, args, config_ok, main_exc, out_file, dirs, engineVars, batchVars >>

\* ProbeEngine(api_key=..., rate_limit_delay=args.rate_limit)
MainCreateEngine ==
    /\ pc = "main"
    /\ config_ok
    /\ ConfigureModels(args.models) # <<>>
    /\ max_retries' = 3
    /\ rate_limit_delay' = args.rate_limit
    /\ total_requests' = 0
    /\ successful_requests' = 0
    /\ failed_requests' = 0
    /\ journal' = <<>>
    /\ pc' = "idle"
    /\ UNCHANGED << cliVars, argVars, results, current, loopVars, attempt, timestamp,
                    outcome, now, callLog, sleeps >>

\* engine.run_batch_probe(prompts, models, languages=args.languages)
MainRunBatchProbe ==
    /\ args # NoArgs
    /\ RunBatchProbe(SelectPrompts(args.prompts), ConfigureModels(args.models),
                     args.languages)

\* the file a writer of save_results produces from the rows of the DataFrame
ResultFile(path, rows) == [path |-> path, rows |-> rows]

\* variant: only the successful rows are written
SaveResultsWritesSuccessful ==
    /\ pc = "done"
    /\ args # NoArgs
    /\ args.output.suffix \in SupportedSuffixes
    /\ dirs' = dirs \cup {args.output.parent}
    /\ out_file' = Some(ResultFile(args.output,
                                   SelectSeq(results, LAMBDA row : row.success)))
    /\ pc' = "saved"
    /\ UNCHANGED << embVars, loaded, args, config_ok, exit_code, main_exc, engineVars, batchVars >>

\* save_results with a supported suffix: mkdir of the parent, then the writer
SaveResultsWrites ==
    /\ pc = "done"
    /\ args # NoArgs
    /\ args.output.suffix \in SupportedSuffixes
    /\ dirs' = dirs \cup {args.output.parent}
    /\ out_file' = Some(ResultFile(args.output, results))
    /\ pc' = "saved"
    /\ UNCHANGED << embVars, loaded, args, config_ok, exit_code, main_exc, engineVars, batchVars >>

\* variant: the unsupported suffix is logged and save_results returns
SaveResultsUnsupportedIgnored ==
    /\ pc = "done"
    /\ args # NoArgs
    /\ args.output.suffix \notin SupportedSuffixes
    /\ dirs' = dirs \cup {args.output.parent}
    /\ pc' = "saved"
    /\ UNCHANGED << embVars, loaded, args, config_ok, exit_code, main_exc, out_file, engineVars, batchVars >>

\* variant: the writer is chosen by the suffix without an else branch, the
\* default writer takes what is left
SaveResultsUnsupportedDefaultWriter ==
    /\ pc = "done"
    /\ args # NoArgs
    /\ args.output.suffix \notin SupportedSuffixes
    /\ dirs' = dirs \cup {args.output.parent}
    /\ out_file' = Some(ResultFile(args.output, results))
    /\ main_exc' = Some(Exc("ValueError",
                            <<"Unsupported file format: ", args.output.suffix>>))
    /\ exit_code' = Some(1)
    /\ pc' = "exited"
    /\ UNCHANGED << embVars, loaded, args, config_ok, engineVars, batchVars >>

\* save_results with any other suffix: mkdir of the parent, then ValueError;
\* main's except clause exits with 1
SaveResultsUnsupported ==
    /\ pc = "done"
    /\ args # NoArgs
    /\ args.output.suffix \notin SupportedSuffixes
    /\ dirs' = dirs \cup {args.output.parent}
    /\ main_exc' = Some(Exc("ValueError",
                            <<"Unsupported file format: ", args.output.suffix>>))
    /\ exit_code' = Some(1)
    /\ pc' = "exited"
    /\ UNCHANGED << embVars, loaded, args, config_ok, out_file, engineVars, batchVars >>

\* variant: the success rate is computed only when there are rows
MainReportGuarded ==
    /\ pc = "saved"
    /\ Len(results) = 0
    /\ exit_code' = Some(0)
    /\ pc' = "exited"
    /\ UNCHANGED << embVars, loaded, args, config_ok, main_exc, out_file, dirs, engineVars, batchVars >>

\* the closing log lines with a DataFrame of no rows: results['success']
\* raises KeyError, main's except clause exits with 1
MainReportRaises ==
    /\ pc = "saved"
    /\ Len(results) = 0
    /\ main_exc' = Some(Exc("KeyError", <<"success">>))
    /\ exit_code' = Some(1)
    /\ pc' = "exited"
    /\ UNCHANGED << embVars, loaded, args, config_ok, out_file, dirs, engineVars, batchVars >>

\* the closing log lines, main() returns
MainReturns ==
    /\ pc = "saved"
    /\ Len(results) > 0
    /\ exit_code' = Some(0)
    /\ pc' = "exited"
    /\ UNCHANGED << embVars, loaded, args, config_ok, main_exc, out_file, dirs, engineVars, batchVars >>

NextCli ==
    \/ MainConfigInvalid
    \/ MainNoValidModels
    \/ MainCreateEngine
    \/ MainRunBatchProbe
    \/ BatchStep
    \/ SaveResultsWrites
    \/ SaveResultsUnsupported
    \/ MainReportRaises
    \/ MainReturns

SpecCli == InitCli /\ [][NextCli]_vars

\* every step of main() that can be taken is eventually taken: the process
\* is scheduled and every remote call returns or raises
SpecCliFair == SpecCli /\ WF_vars(NextCli)

\* ------------------------------------- the result file as .csv, and back
\* Texts of a csv file are sequences of tokens; the empty text is <<>>.
CsvMaxRows == 2

\* the columns of the DataFrame run_batch_probe builds from its rows
Columns ==
    << "prompt_id", "model", "language", "prompt", "response", "timestamp",
       "success", "error" >>

\* datetime.now().isoformat() at clock reading ts
IsoFormat(ts) == << "2026-01-16T00:00:", ToString(ts) >>

\* DataFrame.to_csv: the text written for the value of column col of a row.
\* A str is written as it is, a bool as True or False, None as nothing.
CsvCell(row, col) ==
    CASE col = "prompt_id" -> << row.prompt_id >>
      [] col = "model" -> << row.model >>
      [] col = "language" -> << row.language >>
      [] col = "prompt" -> row.prompt
      [] col = "response" -> IF row.response = "" THEN <<>> ELSE << row.response >>
      [] col = "timestamp" -> IsoFormat(row.timestamp)
      [] col = "success" -> IF row.success THEN << "True" >> ELSE << "False" >>
      [] col = "error" -> IF row.error = None THEN <<>> ELSE row.error[1]

\* df.to_csv(path, index=False): the header line and one line per row.  A
\* DataFrame made from an empty list has no columns: the header line is empty.
ToCsv(rows) ==
    IF rows = <<>>
    THEN << <<>> >>
    ELSE << [c \in DOMAIN Columns |-> << Columns[c] >>] >>
         \o [n \in DOMAIN rows |->
                [c \in DOMAIN Columns |-> CsvCell(rows[n], Columns[c])]]

\* texts pd.read_csv takes for a missing value (keep_default_na=True); the
\* ones the inputs below can contain, of its nineteen
NaValues == { <<>>, << "N/A" >>, << "NA" >>, << "null" >>, << "NaN" >>, << "None" >> }

NaN == [kind |-> "nan"]

\* variant: only the empty field is read as a missing value
ReadCellKeepText(cell) ==
    IF cell = <<>> THEN NaN
    ELSE IF cell \in { << "True" >>, << "False" >> }
         THEN [kind |-> "bool", value |-> (cell = << "True" >>)]
         ELSE [kind |-> "str", text |-> cell]

\* pd.read_csv: the value made of one field
ReadCell(cell) ==
    IF cell \in NaValues THEN NaN
    ELSE IF cell \in { << "True" >>, << "False" >> }
         THEN [kind |-> "bool", value |-> (cell = << "True" >>)]
         ELSE [kind |-> "str", text |-> cell]

\* pd.read_csv(path): EmptyDataError when the first line has no column,
\* else one record per line after the header, keyed by the header's names
ReadCsv(lines) ==
    IF lines[1] = <<>>
    THEN [ok |-> FALSE, error |-> "EmptyDataError", rows |-> <<>>]
    ELSE [ok |-> TRUE, error |-> "",
          rows |-> [n \in 1..(Len(lines) - 1) |->
                      [c \in DOMAIN lines[1] |->
                          [name |-> lines[1][c][1], value |-> ReadCell(lines[n + 1][c])]]]]

\* response texts: an ordinary one, one that reads like a missing value, none
CsvResponses == { "Test response", "N/A", "" }

\* rows of a DataFrame of outcomes
CsvOutcomes ==
    { AppendResult(<<>>, ProbeResultOk("A1", "Llama-3.3-70B", "en", << "A1", "en" >>, r, ts))[1] :
        r \in CsvResponses, ts \in {0, 5} }
    \cup
    { AppendResult(<<>>, ProbeResultErr("A1", "Llama-3.3-70B", "en", << "A1", "en" >>, ts,
                                        StrRetryError(e)))[1] :
        e \in Exceptions, ts \in {0, 5} }

CsvPath == [parent |-> "out", suffix |-> ".csv"]

\* an engine and a DataFrame of outcomes to save
InitCsv ==
    /\ args = NoArgs
    /\ config_ok = TRUE
    /\ exit_code = None
    /\ main_exc = None
    /\ out_file = None
    /\ dirs = {}
    /\ loaded = None
    /\ embedding_cache = <<>>
    /\ embed_call = None
    /\ max_retries = 3
    /\ rate_limit_delay = 1
    /\ total_requests = 0
    /\ successful_requests = 0
    /\ failed_requests = 0
    /\ journal = <<>>
    /\ prompts = <<>>
    /\ models = <<>>
    /\ languages = <<>>
    /\ results \in SeqsUpTo(CsvOutcomes, CsvMaxRows)
    /\ current = 0
    /\ pi = 1
    /\ li = 1
    /\ mi = 1
    /\ pc = "frame"
    /\ attempt = 0
    /\ timestamp = 0
    /\ outcome = NoOutcome
    /\ now = 0
    /\ callLog = <<>>
    /\ sleeps = <<>>

\* engine.save_results(df, path) with a .csv path
SaveResultsCsv ==
    /\ pc = "frame"
    /\ dirs' = dirs \cup {CsvPath.parent}
    /\ out_file' = Some([path |-> CsvPath, lines |-> ToCsv(results)])
    /\ pc' = "written"
    /\ UNCHANGED << embVars, loaded, args, config_ok, exit_code, main_exc, engineVars, batchVars >>

\* loaded_df = pd.read_csv(path)
ReadCsvFile ==
    /\ pc = "written"
    /\ loaded' = Some(ReadCsv(out_file[1].lines))
    /\ pc' = "loaded"
    /\ UNCHANGED << embVars, args, config_ok, exit_code, main_exc, out_file, dirs,
                    engineVars, batchVars >>

NextCsv ==
    \/ SaveResultsCsv
    \/ ReadCsvFile

SpecCsv == InitCsv /\ [][NextCsv]_vars

\* =================================================================== claims
Range(s) == { s[i] : i \in DOMAIN s }

\* the calls made for task number t (the value of `current` while it ran)
CallsOf(t) == { i \in DOMAIN callLog : callLog[i].task = t }

\* identity of the task a result row belongs to
RowTask(row) ==
    [ prompt_id |-> row.prompt_id, language |-> row.language,
      model |-> row.model, prompt |-> row.prompt ]

\* The expansion the specification describes: content items in load order,
\* for each the requested languages it has in the caller's order, for each
\* of those the services in the caller's order.
TasksForModels(pd, lang, m) ==
    [ k \in 1..Len(m) |->
        [ prompt_id |-> pd["id"][1], language |-> lang,
          model |-> m[k].name, prompt |-> pd[lang] ] ]

RECURSIVE TasksForLanguages(_, _, _)
TasksForLanguages(pd, l, m) ==
    IF l = <<>> THEN <<>>
    ELSE (IF Head(l) \in DOMAIN pd THEN TasksForModels(pd, Head(l), m) ELSE <<>>)
         \o TasksForLanguages(pd, Tail(l), m)

RECURSIVE ExpandedTasks(_, _, _)
ExpandedTasks(p, l, m) ==
    IF p = <<>> THEN <<>>
    ELSE TasksForLanguages(Head(p), l, m) \o ExpandedTasks(Tail(p), l, m)

Expanded == ExpandedTasks(prompts, languages, models)

\* sum over content items of (requested languages the item has) * services
RECURSIVE TaskCount(_, _, _)
TaskCount(p, l, m) ==
    IF p = <<>> THEN 0
    ELSE Cardinality({ i \in DOMAIN l : l[i] \in DOMAIN Head(p) }) * Len(m)
         + TaskCount(Tail(p), l, m)

\* C1: when run_batch_probe returns, the result has exactly one row per
\* expanded task: as many rows as tasks, and every task in exactly one row.
C1_OneRowPerTask ==
    pc = "done" =>
        LET E == Expanded IN
        /\ Len(results) = Len(E)
        /\ \A t \in Range(E) :
              Cardinality({ n \in DOMAIN results : RowTask(results[n]) = t }) = 1

\* a finished batch of three tasks, one pair skipped, with a failed and a
\* successful row
C1_Witness ==
    /\ pc = "done"
    /\ Len(results) = 3
    /\ Total(prompts, models, languages) = 4
    /\ \E a, b \in DOMAIN results : results[a].success /\ ~results[b].success

\* C8: the number of tasks a batch executes is the sum over content items of
\* (requested languages the item has) times (number of services); a pair
\* whose language the item lacks gets no call and the batch goes on.
C8_TaskCount ==
    /\ pc = "done" =>
          LET n == TaskCount(prompts, languages, models) IN
          /\ current = n
          /\ { callLog[i].task : i \in DOMAIN callLog } = 1..n
    /\ \A i \in DOMAIN callLog :
          \E n \in DOMAIN prompts, j \in DOMAIN languages :
              /\ languages[j] \in DOMAIN prompts[n]
              /\ callLog[i].prompt = prompts[n][languages[j]]

\* a finished batch in which a pair was skipped and a later pair was run
C8_Witness ==
    /\ pc = "done"
    /\ current = 3
    /\ Len(prompts) = 2 /\ Len(languages) = 2 /\ Len(models) = 1
    /\ languages[1] \notin DOMAIN prompts[1]
    /\ languages[2] \in DOMAIN prompts[1]

\* C9: rows appear, and calls are made, in expansion order: items in the
\* order given, then requested languages, then services.
C9_Order ==
    LET E == Expanded IN
    /\ Len(results) <= Len(E)
    /\ \A n \in DOMAIN results : RowTask(results[n]) = E[n]
    /\ \A i \in DOMAIN callLog :
          /\ callLog[i].task \in DOMAIN E
          /\ callLog[i].prompt = E[callLog[i].task].prompt
          /\ \E k \in DOMAIN models :
                /\ models[k].id = callLog[i].model_id
                /\ models[k].name = E[callLog[i].task].model
    /\ \A i, j \in DOMAIN callLog : i <= j => callLog[i].task <= callLog[j].task

\* a finished batch over two languages and two services
C9_Witness ==
    /\ pc = "done"
    /\ Len(results) = 4
    /\ Len(languages) = 2 /\ Len(models) = 2

\* C2: a task's terminal failure never ends the batch: once a task has
\* failed for good the batch either has a next step to take or has returned
\* with every expanded task executed and recorded.
C2_NoAbortOnTaskFailure ==
    (failed_requests > 0 \/ pc = "raised") =>
        IF pc = "done"
          THEN LET E == Expanded IN
               /\ Len(results) = Len(E)
               /\ \A t \in DOMAIN E : CallsOf(t) # {}
          ELSE ENABLED BatchStep

\* a finished batch in which a task failed for good and a later task ran
C2_Witness ==
    /\ pc = "done"
    /\ \E n \in DOMAIN results :
          /\ ~results[n].success
          /\ n < Len(results)
          /\ CallsOf(n + 1) # {}

\* C3: a recorded outcome is a failure if and only if the journal holds a
\* record written for that task with the same content id and service name.
C3_FailureIffJournal ==
    \A n \in DOMAIN results :
        (~results[n].success) <=>
            \E k \in DOMAIN journal :
                /\ journal[k].task = n
                /\ journal[k].prompt_id = results[n].prompt_id
                /\ journal[k].model = results[n].model

\* a finished batch with a failed and a successful outcome of the same
\* content id and service (in different languages)
C3_Witness ==
    /\ pc = "done"
    /\ \E a, b \in DOMAIN results :
          /\ ~results[a].success
          /\ results[b].success
          /\ results[a].prompt_id = results[b].prompt_id
          /\ results[a].model = results[b].model

\* C4: a call that fails k < 3 times and then succeeds is returned to the
\* caller after exactly k+1 invocations, with the response of the last one;
\* the governor gives up only after 3 failures, whatever was raised.
C4_RetryUntilSuccess ==
    /\ pc = "returned" =>
          /\ outcome.kind = "return"
          /\ attempt - 1 < StopAttempts
          /\ Cardinality(CallsOf(current)) = attempt
          /\ \A i \in CallsOf(current) :
                /\ callLog[i].attempt \in 1..attempt
                /\ callLog[i].ok <=> callLog[i].attempt = attempt
                /\ callLog[i].ok => outcome.value = callLog[i].reply
    /\ pc = "raised" =>
          Cardinality({ i \in CallsOf(current) : ~callLog[i].ok }) = StopAttempts

\* a call returned on its third invocation, after two failures
C4_Witness ==
    /\ pc = "returned"
    /\ attempt = 3
    /\ Cardinality({ i \in CallsOf(current) : ~callLog[i].ok }) = 2

\* C5 (as claimed): when every attempt fails the governor gives up after
\* exactly max_retries invocations.
C5_GivesUpAfterMaxRetries ==
    pc = "raised" => Cardinality(CallsOf(current)) = max_retries

\* the wait between a failed attempt and the next attempt of the same task
IsRetryGap(i) ==
    /\ i \in DOMAIN callLog /\ i + 1 \in DOMAIN callLog
    /\ callLog[i + 1].task = callLog[i].task

RetryGap(i) == callLog[i + 1].start - callLog[i].end

Contains(t, m) == \E i \in DOMAIN t : t[i] = m

\* C7 (as claimed): the outcome of a task whose every attempt raised has
\* success false and an error text that contains the message of the
\* exception the last attempt raised.
C7_ErrorCarriesCause ==
    (pc = "sleep" /\ outcome.kind # "return") =>
        LET row == results[Len(results)] IN
            /\ ~row.success
            /\ row.error # None
            /\ Contains(row.error[1], outcome.exc.msg)

\* C10 (as claimed): at least rate_limit_delay elapses between the starts of
\* any two consecutive remote calls, retries of one task included.
C10_MinSpacing ==
    \A i \in DOMAIN callLog :
        i + 1 \in DOMAIN callLog =>
            callLog[i + 1].start - callLog[i].start >= rate_limit_delay

\* C11: tasks run strictly one after another.  When a remote call of task t
\* starts, the outcomes of tasks 1..t-1 are recorded (and no more), and the
\* rate-limit sleep after task t-1 has ended.  The k-th rate-limit sleep
\* belongs to task k and starts after the outcome of task k is recorded, so
\* each executed task is followed by exactly one sleep.
C11_Sequential ==
    /\ \A i \in DOMAIN callLog :
           LET t == callLog[i].task IN
               /\ callLog[i].rows = t - 1
               /\ callLog[i].waits = t - 1
               /\ t > 1 => sleeps[t - 1].end <= callLog[i].start
    /\ \A k \in DOMAIN sleeps :
           /\ sleeps[k].task = k
           /\ sleeps[k].rows = k
    /\ Len(sleeps) = IF pc = "sleep" THEN Len(results) - 1 ELSE Len(results)

\* the second task has made a remote call after the first one failed
C11_Witness ==
    /\ \E i \in DOMAIN callLog : callLog[i].task = 2
    /\ Len(results) >= 1
    /\ ~results[1].success
    /\ rate_limit_delay = 10

\* total length of the rate-limit sleeps taken so far
RECURSIVE SleepTotal(_)
SleepTotal(sl) ==
    IF sl = <<>> THEN 0
    ELSE (sl[1].end - sl[1].start) + SleepTotal(Tail(sl))

\* C12: once M tasks are executed, the time spent in rate-limit sleeps is at
\* least (M - 1) * rate_limit_delay, and so is the time elapsed since the
\* batch started (the clock reads 0 at the start of the batch).
C12_TotalWait ==
    pc = "done" =>
        LET M == Len(results) IN
            /\ M = current
            /\ SleepTotal(sleeps) >= (M - 1) * rate_limit_delay
            /\ now >= SleepTotal(sleeps)

\* a batch of several tasks, in more than one group of models, has returned
C12_Witness ==
    /\ pc = "done"
    /\ Len(results) >= 3
    /\ Len(models) < Len(results)
    /\ rate_limit_delay = 10
    /\ SleepTotal(sleeps) >= 30

\* C13 (as claimed): when the append to the failure journal raises, the
\* failed task's outcome is still recorded and the batch has a next step.
C13_JournalFaultTolerated ==
    pc = "aborted" =>
        /\ Len(results) = current
        /\ ~results[current].success
        /\ ENABLED BatchStep

\* tasks among the first n rows whose outcome is a failure
FailedRows(n) == { t \in 1..n : ~results[t].success }

\* journal records written for task t
RecordsOf(t) == { k \in DOMAIN journal : journal[k].task = t }

\* C14: the failure record is written when the task fails, not later.  Every
\* remote call started with as many journal records as failed outcomes
\* recorded before it, and whenever a task is about to call, is calling, or
\* the batch has returned, each task that failed so far has exactly one
\* record in the journal and the journal holds nothing else.
C14_JournalImmediate ==
    /\ \A i \in DOMAIN callLog :
           callLog[i].records = Cardinality(FailedRows(callLog[i].rows))
    /\ pc \in {"loop", "call", "returned", "raised", "done"} =>
           /\ \A t \in FailedRows(Len(results)) : Cardinality(RecordsOf(t)) = 1
           /\ Len(journal) = Cardinality(FailedRows(Len(results)))

\* a later task calls after an earlier one failed
C14_Witness ==
    /\ pc = "call"
    /\ current = 3
    /\ FailedRows(Len(results)) = {1, 2}
    /\ Len(journal) = 2

\* the requested service names that are in the configured table
KnownRequested == SelectSeq(args.models, LAMBDA n : n \in DOMAIN ConfigModels)

\* the output path's suffix is not one of the supported set
UnsupportedOutput == args.output.suffix \notin {".csv", ".json", ".xlsx"}

\* main() has called save_results and the call is over
SaveResultsOver ==
    /\ pc \in {"saved", "exited"}
    /\ config_ok
    /\ KnownRequested # <<>>

\* C15: when save_results is given a path whose suffix is not .csv, .json or
\* .xlsx, it raises an error whose text contains that suffix and no result
\* file has been written.  (The parent directory of the path exists by then:
\* it is created before the suffix is looked at.)
C15_UnsupportedRejected ==
    (SaveResultsOver /\ UnsupportedOutput) =>
        /\ pc = "exited"
        /\ main_exc # None
        /\ Contains(main_exc[1].text, args.output.suffix)
        /\ out_file = None

\* save_results has rejected the suffix .txt after a batch with rows
C15_Witness ==
    /\ SaveResultsOver
    /\ args.output.suffix = ".txt"
    /\ Len(results) >= 2
    /\ main_exc # None
    /\ main_exc[1].type = "ValueError"
    /\ args.output.parent \in dirs

\* C16 (as claimed): in a run whose output path has an unsupported suffix no
\* remote call is made.
C16_NoCallWhenUnsupported ==
    UnsupportedOutput => callLog = <<>>

\* some requested service name is not in the configured table
UnknownRequested == \E k \in DOMAIN args.models : args.models[k] \notin DOMAIN ConfigModels

\* C17 (as claimed): in a run that names a service that is not in the
\* configured table no remote call is made, whatever the other names are.
C17_UnknownModelFatal ==
    UnknownRequested => callLog = <<>>

\* C17 (amended): a requested name that is not in the configured table is
\* skipped.  The batch runs over the requested names that are in the table,
\* in the order given, and every task over them is executed; only when no
\* requested name is in the table is the run over before any remote call,
\* with exit status 1.
C17_UnknownModelSkipped ==
    /\ (pc \notin {"main", "idle"} /\ config_ok /\ KnownRequested # <<>>) =>
           /\ Len(models) = Len(KnownRequested)
           /\ \A k \in DOMAIN models :
                  /\ models[k].name = KnownRequested[k]
                  /\ models[k].id = ConfigModels[KnownRequested[k]]
    /\ (pc \in {"done", "saved", "exited"} /\ config_ok /\ KnownRequested # <<>>) =>
           Len(results) = TaskCount(SelectPrompts(args.prompts), args.languages,
                                    models)
    /\ KnownRequested = <<>> =>
           /\ callLog = <<>>
           /\ pc = "exited" => exit_code = Some(1)

\* a run that names an unknown service first has made remote calls for the
\* known one and ended with status 0
C17_Witness ==
    /\ UnknownRequested
    /\ args.models[1] \notin DOMAIN ConfigModels
    /\ pc = "exited"
    /\ exit_code = Some(0)
    /\ Len(callLog) >= 2

\* C18: a run in which no requested service name is in the configured table,
\* or whose output path has an unsupported suffix, never gets past
\* save_results and, when it exits, exits with a status other than 0.
C18_NonZeroExit ==
    (KnownRequested = <<>> \/ UnsupportedOutput) =>
        /\ pc # "saved"
        /\ pc = "exited" => (exit_code # None /\ exit_code[1] # 0)

\* a run with valid services and an unsupported suffix has exited with 1
\* after its batch
C18_Witness ==
    /\ pc = "exited"
    /\ config_ok
    /\ KnownRequested # <<>>
    /\ UnsupportedOutput
    /\ callLog # <<>>
    /\ exit_code = Some(1)

\* the configuration of the run is valid
ValidRun ==
    /\ config_ok
    /\ KnownRequested # <<>>
    /\ ~UnsupportedOutput

\* task t made its last allowed attempt and it raised
FailedTerminally(t) ==
    \E i \in CallsOf(t) : callLog[i].attempt = StopAttempts /\ ~callLog[i].ok

\* the result file has one row per expanded task, in order, and the row of a
\* task that failed is there with success false and an error text
FileIsComplete ==
    LET rows == out_file[1].rows
        E == ExpandedTasks(SelectPrompts(args.prompts), args.languages, models)
    IN  /\ Len(rows) = Len(E)
        /\ \A t \in DOMAIN E :
               /\ RowTask(rows[t]) = E[t]
               /\ FailedTerminally(t) =>
                      (~rows[t].success /\ rows[t].error # None)
               /\ ~FailedTerminally(t) => rows[t].success

\* C19: a run with a valid configuration, in which every remote call returns
\* or raises, goes on until the batch has returned and a result file is
\* written and the process exits; whenever there is a result file it has one
\* row per expanded task, the failed tasks included.
C19_CompletesWithFile ==
    /\ ValidRun ~> (pc = "exited" /\ out_file # None)
    /\ [](out_file # None => (pc \in {"saved", "exited"} /\ FileIsComplete))

\* a result file of four rows, failed and successful, has been written
C19_Witness ==
    /\ ValidRun
    /\ pc = "exited"
    /\ out_file # None
    /\ Len(out_file[1].rows) = 4
    /\ ~out_file[1].rows[1].success
    /\ out_file[1].rows[2].success
    /\ FileIsComplete

\* C20: every recorded outcome is of one of two shapes.  With success true
\* its response is the text a remote call of its task returned and it has no
\* error; with success false its response is empty and its error is a
\* non-empty text.  In both it carries the content id, service name,
\* language and prompt text of its task, and the prompt text is the one the
\* remote calls of the task were given.
C20_OutcomeShapes ==
    LET E == Expanded IN
    \A n \in DOMAIN results :
        LET row == results[n] IN
            /\ row.success \in BOOLEAN
            /\ row.success =>
                   /\ \E i \in CallsOf(n) :
                          callLog[i].ok /\ row.response = callLog[i].reply
                   /\ row.error = None
            /\ ~row.success =>
                   /\ row.response = ""
                   /\ row.error # None
                   /\ row.error[1] # <<>>
            /\ RowTask(row) = E[n]
            /\ \A i \in CallsOf(n) : callLog[i].prompt = row.prompt

\* a batch has recorded an outcome of each shape
C20_Witness ==
    /\ Len(results) >= 2
    /\ results[1].success
    /\ results[1].response = "Test response"
    /\ ~results[2].success
    /\ results[2].error # None

\* C21: a freshly constructed engine has its three counters at zero.  The
\* success counter is the number of recorded outcomes with success true, the
\* failure counter the number with success false; when no task is in
\* progress total = success + failure = number of recorded outcomes, and
\* while a task is in progress total is one ahead.
C21_Counters ==
    LET n == Len(results) IN
        /\ pc = "idle" =>
               (total_requests = 0 /\ successful_requests = 0 /\ failed_requests = 0)
        /\ successful_requests = n - Cardinality(FailedRows(n))
        /\ failed_requests = Cardinality(FailedRows(n))
        /\ pc \in {"idle", "loop", "sleep", "done"} =>
               /\ total_requests = successful_requests + failed_requests
               /\ total_requests = n
        /\ pc \in {"call", "returned", "raised"} => total_requests = n + 1

\* a batch has returned with outcomes of both kinds counted
C21_Witness ==
    /\ pc = "done"
    /\ total_requests = 4
    /\ successful_requests = 1
    /\ failed_requests = 3

\* C22 (as claimed): the timestamp of a recorded outcome is not earlier than
\* the end of any remote call of its task, the last one included.
C22_TimestampAtCompletion ==
    \A n \in DOMAIN results :
        \A i \in CallsOf(n) : results[n].timestamp >= callLog[i].end

\* str() of the value of field col of a saved outcome, a missing value
\* (None) having no text
FieldText(row, col) ==
    CASE col = "prompt_id" -> << row.prompt_id >>
      [] col = "model" -> << row.model >>
      [] col = "language" -> << row.language >>
      [] col = "prompt" -> row.prompt
      [] col = "response" -> IF row.response = "" THEN <<>> ELSE << row.response >>
      [] col = "timestamp" -> IsoFormat(row.timestamp)
      [] col = "success" -> IF row.success THEN << "True" >> ELSE << "False" >>
      [] col = "error" -> IF row.error = None THEN <<>> ELSE row.error[1]

\* str() of a value read back, a missing value (NaN) having no text
Render(v) ==
    CASE v.kind = "nan" -> <<>>
      [] v.kind = "bool" -> IF v.value THEN << "True" >> ELSE << "False" >>
      [] v.kind = "str" -> v.text

Finished ==
    { callLog[i].task : i \in { k \in DOMAIN callLog :
                                    callLog[k].ok \/ callLog[k].attempt = StopAttempts } }

\* the last remote call of task t so far
LastCall(t) == callLog[CHOOSE i \in CallsOf(t) : \A k \in CallsOf(t) : k <= i]

\* the recorded outcomes that are failures, in order
FailedSeq == SelectSeq([n \in 1..Len(results) |-> n], LAMBDA n : ~results[n].success)

\* C24: the counters take no part in control.  Whatever the values of the
\* counters at the start of the batch, the remote calls made, the outcomes
\* recorded and the journal records written are the ones determined by the
\* batch (its expansion) and by what the remote calls returned or raised:
\* the first call is attempt 1 of task 1 and each later call is the next
\* attempt of the same task or attempt 1 of the next task according to the
\* result of the call before it; the n-th outcome is that of the n-th
\* expanded task with the result of its last call (the response returned, or
\* the text of the RetryError of the exception raised); the k-th journal record
\* is that of the k-th failed outcome; and the batch returns with one outcome
\* per expanded task.
C24_CountersNotControl ==
    LET E == Expanded IN
    /\ \A i \in DOMAIN callLog :
           LET c == callLog[i] IN
               /\ i = 1 => (c.task = 1 /\ c.attempt = 1)
               /\ i > 1 =>
                      LET p == callLog[i - 1] IN
                          IF p.ok \/ p.attempt = StopAttempts
                          THEN c.task = p.task + 1 /\ c.attempt = 1
                          ELSE c.task = p.task /\ c.attempt = p.attempt + 1
               /\ c.task \in DOMAIN E
               /\ c.prompt = E[c.task].prompt
               /\ \E k \in DOMAIN models :
                      models[k].name = E[c.task].model /\ models[k].id = c.model_id
    /\ Len(results) =
           Cardinality(Finished) - (IF pc \in {"returned", "raised"} THEN 1 ELSE 0)
    /\ \A n \in DOMAIN results :
           LET row == results[n]
               last == LastCall(n)
           IN  /\ RowTask(row) = E[n]
               /\ row.success = last.ok
               /\ last.ok => (row.response = last.reply /\ row.error = None)
               /\ ~last.ok =>
                      /\ row.response = ""
                      /\ \E e \in Exceptions : row.error = Some(StrRetryError(e))
                      /\ (pc = "sleep" /\ n = Len(results)) =>
                             row.error = Some(StrRetryError(outcome.exc))
    /\ Len(journal) = Len(FailedSeq)
    /\ \A k \in DOMAIN journal :
           LET row == results[FailedSeq[k]] IN
               /\ journal[k].task = FailedSeq[k]
               /\ journal[k].prompt_id = row.prompt_id
               /\ journal[k].model = row.model
               /\ journal[k].prompt = row.prompt
               /\ journal[k].error = row.error[1]
    /\ pc = "done" => Len(results) = Len(E)

\* an engine that had produced 5 outcomes before has run a batch of three
\* tasks to its end, with failures
C24_Witness ==
    /\ pc = "done"
    /\ total_requests = 8
    /\ failed_requests = 4
    /\ Len(results) = 3
    /\ Len(journal) = 2

\* the state of the t-th task of the batch: PENDING until run_single_probe
\* is entered for it, IN_PROGRESS until its outcome is recorded, then
\* SUCCEEDED or FAILED by the success flag of the outcome
TaskState(t) ==
    IF t > current THEN "PENDING"
    ELSE IF t > Len(results) THEN "IN_PROGRESS"
    ELSE IF results[t].success THEN "SUCCEEDED" ELSE "FAILED"

TaskIds == 1..(MaxTotal + 1)

\* C25: in every step each task either keeps its state or moves PENDING ->
\* IN_PROGRESS, IN_PROGRESS -> SUCCEEDED or IN_PROGRESS -> FAILED; a task
\* that is SUCCEEDED or FAILED keeps its outcome and makes no further remote
\* call; and at most one task is IN_PROGRESS at any time.
C25_TaskStateMachine ==
    /\ [][ \A t \in TaskIds :
             LET a == TaskState(t)
                 b == TaskState(t)'
             IN  /\ \/ a = b
                    \/ (a = "PENDING" /\ b = "IN_PROGRESS")
                    \/ (a = "IN_PROGRESS" /\ b \in {"SUCCEEDED", "FAILED"})
                 /\ a \in {"SUCCEEDED", "FAILED"} =>
                        /\ results'[t] = results[t]
                        /\ CallsOf(t)' = CallsOf(t) ]_vars
    /\ [](Cardinality({ t \in TaskIds : TaskState(t) = "IN_PROGRESS" }) <= 1)

\* tasks in each of the four states at once
C25_Witness ==
    /\ TaskState(1) = "FAILED"
    /\ TaskState(2) = "SUCCEEDED"
    /\ TaskState(3) = "IN_PROGRESS"
    /\ TaskState(4) = "PENDING"
    /\ Len(Expanded) = 4
    /\ attempt = 2

\* C26: the journal is append-only.  A step leaves the journal as it is or
\* adds one record at its end, the records before it unchanged and in place;
\* no task has two records; and the records are in the order in which their
\* tasks failed (task numbers and write times ascending).
C26_AppendOnly ==
    /\ [][ \/ journal' = journal
           \/ /\ Len(journal') = Len(journal) + 1
              /\ SubSeq(journal', 1, Len(journal)) = journal
              /\ journal'[Len(journal')].task = current ]_vars
    /\ [](\A k, l \in DOMAIN journal :
              k < l =>
                  /\ journal[k].task < journal[l].task
                  /\ journal[k].timestamp <= journal[l].timestamp)

\* a second record has been appended after the first
C26_Witness ==
    /\ Len(journal) = 3
    /\ journal[1].task = 1
    /\ journal[2].task = 3
    /\ journal[3].task = 4

\* C27: a task whose outcome is recorded has made between 1 and 3 remote
\* calls, numbered 1, 2, ... without a gap; none of them but the last
\* succeeded; and its outcome is a success exactly if the last one succeeded.
\* A task in progress has made at most 3, so T tasks make at most 3 * T.
C27_AttemptBounds ==
    /\ \A t \in DOMAIN results :
           LET n == Cardinality(CallsOf(t)) IN
               /\ 1 <= n
               /\ n <= 3
               /\ { callLog[i].attempt : i \in CallsOf(t) } = 1..n
               /\ \A i \in CallsOf(t) : callLog[i].ok => callLog[i].attempt = n
               /\ results[t].success = LastCall(t).ok
    /\ \A i \in DOMAIN callLog : callLog[i].attempt <= 3
    /\ Len(callLog) <= 3 * current

\* with max_retries = 5: a task that failed three times and one that
\* succeeded at its third attempt
C27_Witness ==
    /\ max_retries = 5
    /\ Len(results) = 2
    /\ ~results[1].success
    /\ results[2].success
    /\ Len(callLog) = 6

\* C28: the counters and the journal belong to the engine, not to a batch.
\* Whenever no task is in progress, total_requests is the number of outcomes
\* the engine has produced since it was constructed, in all its batches and
\* single probes, the other two counters are the numbers of successful and
\* failed ones, and the journal holds one record per failed one; no step,
\* the start of a new batch included, removes or changes a journal record.
C28_CountersAccumulate ==
    /\ [](pc \in {"idle", "loop", "sleep", "done"} =>
            LET ok == { i \in TerminalCalls : callLog[i].ok } IN
                /\ total_requests = Cardinality(TerminalCalls)
                /\ successful_requests = Cardinality(ok)
                /\ failed_requests = Cardinality(TerminalCalls \ ok)
                /\ Len(journal) = Cardinality(TerminalCalls \ ok))
    /\ [][ /\ Len(journal') >= Len(journal)
           /\ SubSeq(journal', 1, Len(journal)) = journal ]_vars

\* the second batch of the engine has returned: its one outcome is the
\* second of the engine, and both failed
C28_Witness ==
    /\ pc = "done"
    /\ Len(results) = 1
    /\ ~results[1].success
    /\ total_requests = 2
    /\ failed_requests = 2
    /\ Len(journal) = 2
    /\ Len(sleeps) = 2

\* the run expands to no task
NoTaskExpanded ==
    TaskCount(SelectPrompts(args.prompts), args.languages,
              ConfigureModels(args.models)) = 0

\* C29: a run with a valid configuration, a resolved service and a supported
\* output suffix that expands to no task never makes a remote call, and once
\* it has exited the result file exists with no row and the exit status is
\* not 0.
C29_EmptyRunFails ==
    (ValidRun /\ NoTaskExpanded) =>
        /\ callLog = <<>>
        /\ pc = "exited" =>
               /\ out_file # None
               /\ out_file[1].rows = <<>>
               /\ exit_code # None
               /\ exit_code[1] # 0

\* a run for an item that has no text in the requested language has exited
C29_Witness ==
    /\ ValidRun
    /\ args.prompts = Some(<< "B1" >>)
    /\ args.languages = << "cn" >>
    /\ pc = "exited"
    /\ out_file # None
    /\ exit_code = Some(1)
    /\ main_exc # None

\* C30: the cache is transparent.  The last compute_embeddings call has
\* returned one row per text, row i being the embedding of texts[i], with
\* the cache or without it; and every text in the cache is mapped to its own
\* embedding.
C30_CacheTransparent ==
    /\ embed_call # None =>
           LET c == embed_call[1] IN
               /\ Len(c.result) = Len(c.texts)
               /\ \A i \in DOMAIN c.texts : c.result[i] = << "embedding", c.texts[i] >>
    /\ \A t \in DOMAIN embedding_cache : embedding_cache[t] = << "embedding", t >>

\* a call with the cache in which one text was cached and another, not
\* cached, came twice
C30_Witness ==
    /\ embed_call # None
    /\ embed_call[1].use_cache
    /\ embed_call[1].texts = << "a", "b", "a" >>
    /\ embed_call[1].cached = 1
    /\ DOMAIN embedding_cache = {"a", "b"}

====
